---- MODULE Spec2Model ----
(***************************************************************************)
(* Launch-Weather Correlation Engine (MCP/src/Helper.ts).                  *)
(*                                                                         *)
(* SpecFetch  : makeApiRequestWithRetry as a state machine, one step per   *)
(*              suspension point (the fetch, the backoff sleep).           *)
(* SpecNearby : one getNearbyLaunches request, one step per awaited call.  *)
(* SpecVis    : the visibility derivation (Step 6) over a grid of values.  *)
(***************************************************************************)
EXTENDS Integers, Sequences, FiniteSets, TLC

VARIABLES
    \* ---- makeApiRequestWithRetry ----
    fpc,            \* "idle" | "attempting" | "backoff" | "success" | "failure"
    maxRetries,     \* parameter maxRetries
    backoffFactor,  \* parameter backoffFactor
    attempt,        \* loop variable attempt
    wait,           \* seconds of the sleep in progress (setTimeout argument / 1000)
    fres,           \* returned value: "pending" | "null" | "response"
    log,            \* history: the outcome of every fetch(url) issued, in order
    sleeps,         \* history: the seconds of every completed sleep, in order
    \* ---- getNearbyLaunches ----
    pc,             \* "idle" | "geocode" | "forecast" | "launches" | "done"
    req,            \* the arguments: location, maxDistanceKm, daysAhead, maxResults, specificDate
    env,            \* the process: now (the clock) and tz (local offset from UTC, hours)
    issued,         \* history: the upstream calls issued by this request, in order
    locData,        \* const locData (<<>> is null)
    dates,          \* targetDate, dateStart, dateEnd (<<>> is null)
    weatherData,    \* const weatherData (mutated by the date filter)
    launches,       \* const launches, what getNextLaunch returned (<<>> before Step 4)
    nearby,         \* const nearby: Launch[] (<<>> until Step 5 has run)
    result,         \* the resolved value of the returned promise (<<>> before it resolves)
    \* ---- one call of a public operation ----
    upstream,       \* what the upstream call of a stand-alone operation gave (<<>> if none)
    settled,        \* the returned promise: "pending" | "resolved" | "rejected"
    \* ---- the MCP server process and its Temporal client (index.ts, temporal-client.ts) ----
    server,             \* "off" | "starting" | "listening" | "exited"
    temporalClient,     \* the module-level client: <<>> (null) or <<id of its connection>>
    temporalConnection, \* the module-level connection: <<>> (null) or <<id>>
    connections,        \* how many Temporal connections have been opened so far
    calls,              \* per caller of initializeTemporalClient: [pc, tool, client]
    handled             \* the /mcp requests taken up so far: [id, tool, checked]

fetchVars == <<fpc, maxRetries, backoffFactor, attempt, wait, fres, log, sleeps>>

nearbyVars ==
    <<pc, req, env, issued, locData, dates, weatherData, launches, nearby, result>>

callVars == <<upstream, settled>>

temporalVars == <<server, temporalClient, temporalConnection, connections, calls, handled>>

vars == <<fetchVars, nearbyVars, callVars, temporalVars>>

-----------------------------------------------------------------------------
\* Bounds of the model
MaxAttempts == 3

\* The values the callers pass for backoffFactor (2.0 and 3)
BackoffFactors == {2, 3}

\* response.headers.get('retry-after'): <<>> when the header is absent (null)
NoHeader == <<>>

\* What one fetch(url) can produce: a response with a status (a 429 may carry a
\* retry-after header), or a rejection carrying err.name / err.code.
Responses ==
    [kind : {"response"}, status : {200, 401, 403, 500}, retryAfter : {NoHeader}]
    \cup [kind : {"response"}, status : {429}, retryAfter : {NoHeader, <<7>>}]

Rejections ==
    [kind : {"error"}, name : {"AbortError"}, code : {"none"}]
    \cup [kind : {"error"}, name : {"FetchError"},
          code : {"ETIMEDOUT", "ECONNREFUSED", "ENOTFOUND", "EPROTO"}]

Outcomes == Responses \cup Rejections

RECURSIVE Pow(_, _)
Pow(b, e) == IF e = 0 THEN 1 ELSE b * Pow(b, e - 1)

\* for (...; attempt < maxRetries; ...)
LoopContinues_offByOne(a, m) == a + 1 < m
LoopContinues(a, m) == a < m

\* response.status === 429
IsRateLimited_with403(status) == status \in {429, 403}
IsRateLimited(status) == status = 429

\* response.status === 403, response.status === 401
IsForbidden(status) == status = 403
IsUnauthorized(status) == status = 401

\* response.ok
IsOk_anyStatus(status) == TRUE
\* response.ok
IsOk(status) == status >= 200 /\ status <= 299

\* parseInt(response.headers.get('retry-after') || String(backoffFactor ** attempt))
RetryAfter(r, bf, a) == IF r.retryAfter = NoHeader THEN Pow(bf, a) ELSE r.retryAfter[1]

\* err.name === 'AbortError' || err.code === 'ETIMEDOUT'
IsTimeout(e) == e.name = "AbortError" \/ e.code = "ETIMEDOUT"
\* err.code === 'ECONNREFUSED' || err.code === 'ENOTFOUND'
IsConnectionError(e) == e.code = "ECONNREFUSED" \/ e.code = "ENOTFOUND"

\* if (attempt < maxRetries - 1)
AttemptsRemain_afterLast(a, m) == a < m
AttemptsRemain(a, m) == a < m - 1

\* const waitTime = backoffFactor ** attempt
WaitTime(bf, a) == Pow(bf, a)

\* The catch block: a timeout or a connection error is retried while attempts
\* remain; every other error returns null at once.
Catch(e, a, m, bf) ==
    IF IsTimeout(e) \/ IsConnectionError(e)
    THEN IF AttemptsRemain(a, m)
         THEN [next |-> "backoff", wait |-> WaitTime(bf, a)]
         ELSE [next |-> "failure", wait |-> 0]
    ELSE [next |-> "failure", wait |-> 0]

\* new Error(`HTTP ${response.status}`): a plain Error, no code
HttpError == [kind |-> "error", name |-> "Error", code |-> "none"]

\* The body of the try block after the fetch has settled.
Handle(r, a, m, bf) ==
    IF r.kind = "error" THEN Catch(r, a, m, bf)
    ELSE IF IsRateLimited(r.status)
         THEN [next |-> "backoff", wait |-> RetryAfter(r, bf, a)]
    ELSE IF IsForbidden(r.status) THEN [next |-> "failure", wait |-> 0]
    ELSE IF IsUnauthorized(r.status) THEN [next |-> "failure", wait |-> 0]
    ELSE IF ~IsOk(r.status) THEN Catch(HttpError, a, m, bf)
    ELSE [next |-> "success", wait |-> 0]

\* One loop iteration up to its first suspension after the fetch.
Attempt ==
    /\ fpc = "attempting"
    /\ LoopContinues(attempt, maxRetries)
    /\ \E r \in Outcomes :
         LET h == Handle(r, attempt, maxRetries, backoffFactor) IN
         /\ log' = Append(log, r)
         /\ fpc' = h.next
         /\ wait' = h.wait
         /\ fres' = CASE h.next = "success" -> "response"
                      [] h.next = "failure" -> "null"
                      [] OTHER -> fres
    /\ UNCHANGED <<maxRetries, backoffFactor, attempt, sleeps, nearbyVars, callVars, temporalVars>>

\* The setTimeout promise resolves; continue runs attempt++.
Backoff ==
    /\ fpc = "backoff"
    /\ sleeps' = Append(sleeps, wait)
    /\ attempt' = attempt + 1
    /\ wait' = 0
    /\ fpc' = "attempting"
    /\ UNCHANGED <<maxRetries, backoffFactor, fres, log, nearbyVars, callVars, temporalVars>>

\* The loop condition fails: return null after the loop.
GiveUp ==
    /\ fpc = "attempting"
    /\ ~LoopContinues(attempt, maxRetries)
    /\ fpc' = "failure"
    /\ fres' = "null"
    /\ UNCHANGED <<maxRetries, backoffFactor, attempt, wait, log, sleeps, nearbyVars, callVars, temporalVars>>

\* no stand-alone call of a public operation is under way
CallIdle ==
    /\ upstream = <<>>
    /\ settled = "pending"

\* the MCP server process is not part of the run
ServerIdle ==
    /\ server = "off"
    /\ temporalClient = <<>>
    /\ temporalConnection = <<>>
    /\ connections = 0
    /\ calls = <<>>
    /\ handled = {}

\* No getNearbyLaunches request is in progress.
NearbyIdle ==
    /\ pc = "idle"
    /\ req = <<>>
    /\ env = <<>>
    /\ issued = <<>>
    /\ locData = <<>>
    /\ dates = <<>>
    /\ weatherData = <<>>
    /\ launches = <<>>
    /\ nearby = <<>>
    /\ result = <<>>
    /\ CallIdle

InitFetch ==
    /\ fpc = "attempting"
    /\ maxRetries \in 0..MaxAttempts
    /\ backoffFactor \in BackoffFactors
    /\ attempt = 0
    /\ wait = 0
    /\ fres = "pending"
    /\ log = <<>>
    /\ sleeps = <<>>
    /\ NearbyIdle
    /\ ServerIdle

NextFetch == Attempt \/ Backoff \/ GiveUp

SpecFetch == InitFetch /\ [][NextFetch]_vars

-----------------------------------------------------------------------------
\* Helpers of the statements about makeApiRequestWithRetry

Terminated == fpc \in {"success", "failure"}
Last(s) == s[Len(s)]
Is429(r) == r.kind = "response" /\ r.status = 429
Is2xx(r) == r.kind = "response" /\ r.status >= 200 /\ r.status <= 299
IsNetworkFailure(r) ==
    /\ r.kind = "error"
    /\ \/ r.name = "AbortError"
       \/ r.code \in {"ETIMEDOUT", "ECONNREFUSED", "ENOTFOUND"}
AllOf(s, P(_)) == \A i \in 1..Len(s) : P(s[i])
Front(s) == SubSeq(s, 1, Len(s) - 1)

\* C1: a 403 or 401 response is terminal: right after it the call has
\* returned null, no sleep follows it and no further fetch can be issued.
C1_AuthTerminal ==
    (Len(log) > 0 /\ Last(log).kind = "response" /\ Last(log).status \in {401, 403})
        => /\ fpc = "failure"
           /\ fres = "null"
           /\ Len(sleeps) = Len(log) - 1
           /\ ~ENABLED Attempt
           /\ ~ENABLED Backoff

C1_Witness ==
    /\ Len(log) = 2
    /\ Last(log).kind = "response" /\ Last(log).status = 403
    /\ fpc = "failure"

\* C2: k 429 responses (k < maxRetries) followed by a 2xx succeed: after the k
\* 429s the call is still attempting or sleeping, each 429 is followed by one
\* sleep, and the 2xx is returned after exactly k+1 fetches.
C2_RateLimitedThenOk ==
    /\ (AllOf(log, Is429) /\ Len(log) < maxRetries)
          => /\ fpc \in {"attempting", "backoff"}
             /\ fpc = "attempting" => (Len(sleeps) = Len(log) /\ ENABLED Attempt)
             /\ fpc = "backoff" => Len(sleeps) = Len(log) - 1
    /\ (Len(log) > 0 /\ AllOf(Front(log), Is429) /\ Is2xx(Last(log)))
          => /\ fpc = "success"
             /\ fres = "response"
             /\ Len(log) <= maxRetries
             /\ Len(sleeps) = Len(log) - 1
             /\ attempt = Len(log) - 1

C2_Witness ==
    /\ maxRetries = 3
    /\ Len(log) = 3
    /\ AllOf(Front(log), Is429)
    /\ Is2xx(Last(log))
    /\ fpc = "success"

\* C3: a non-2xx status other than 429, 401, 403 is retried like a network
\* error: with attempts remaining the call sleeps backoffFactor^attempt seconds.
C3_OtherStatusRetried ==
    (/\ Len(log) > 0
     /\ Last(log).kind = "response"
     /\ Last(log).status = 500
     /\ Len(log) < maxRetries
     /\ Len(sleeps) = Len(log) - 1)
        => /\ fpc = "backoff"
           /\ wait = Pow(backoffFactor, attempt)

\* C4: when every attempt ends in a network-level failure the call issues
\* exactly maxRetries fetches, sleeps backoffFactor^attempt between consecutive
\* fetches and not after the last, and returns null.
C4_NetworkFailuresExhaust ==
    /\ (AllOf(log, IsNetworkFailure) /\ Len(log) < maxRetries) => ~Terminated
    /\ (AllOf(log, IsNetworkFailure) /\ Terminated)
          => /\ fres = "null"
             /\ Len(log) = maxRetries
             /\ sleeps = [i \in 1..(maxRetries - 1) |-> Pow(backoffFactor, i - 1)]

C4_Witness ==
    /\ maxRetries = 3
    /\ Len(log) = 3
    /\ AllOf(log, IsNetworkFailure)
    /\ fpc = "failure"
    /\ sleeps = <<1, backoffFactor>>

-----------------------------------------------------------------------------
(***************************************************************************)
(* Strings are sequences of one-character strings, so that toLowerCase and *)
(* includes are computed and not assumed.                                  *)
(***************************************************************************)
UpperToLower ==
    [A |-> "a", B |-> "b", C |-> "c", D |-> "d", E |-> "e", F |-> "f", G |-> "g",
     H |-> "h", I |-> "i", L |-> "l", M |-> "m", N |-> "n", O |-> "o", R |-> "r",
     S |-> "s", T |-> "t", U |-> "u", Z |-> "z"]

\* String.prototype.toLowerCase
ToLowerCase(str) ==
    [i \in 1..Len(str) |->
        IF str[i] \in DOMAIN UpperToLower THEN UpperToLower[str[i]] ELSE str[i]]

\* String.prototype.includes (substring)
Includes(str, sub) ==
    \E i \in 1..(Len(str) - Len(sub) + 1) : SubSeq(str, i, i + Len(sub) - 1) = sub

(***************************************************************************)
(* Time is counted in hours since year 0 of a calendar of DaysPerYear-day  *)
(* years (no leap days). A Date is its instant; the local calendar fields  *)
(* (getFullYear, getMonth, getDate) are those of instant + tz, the UTC day *)
(* key (toISOString().split('T')[0]) is the number of the UTC day.         *)
(***************************************************************************)
HoursPerDay == 24
DaysPerYear == 365

\* date.toISOString().split('T')[0]
DayKey(t) == t \div HoursPerDay
\* date.getUTCHours()
UTCHours(t) == t % HoursPerDay
\* date.getFullYear(), and getMonth()/getDate() as the day of the year, local time
GetFullYear(t, tz) == ((t + tz) \div HoursPerDay) \div DaysPerYear
GetDayOfYear(t, tz) == ((t + tz) \div HoursPerDay) % DaysPerYear
\* date.setFullYear(y): same local month, day and time of day in year y
SetFullYear(t, tz, y) == t + (y - GetFullYear(t, tz)) * DaysPerYear * HoursPerDay
\* Date.UTC(year, month, date, hours, ...)
DateUTC(y, doy, h) == (y * DaysPerYear + doy) * HoursPerDay + h

\* new Date(specificDate).getTime(): <<>> for NaN. A date-only ISO string is
\* taken as UTC midnight, every other form as local midnight; a string with no
\* year gets the year the parser assigns (sd.y).
ParseDate(sd, tz) ==
    CASE sd.form = "invalid" -> <<>>
      [] sd.form = "iso" -> <<DateUTC(sd.y, sd.doy, 0)>>
      [] OTHER -> <<DateUTC(sd.y, sd.doy, 0) - tz>>

\* !specificDate.match(/\d{4}/)
NoYearInString(sd) == ~sd.year4

\* targetDate < now && !specificDate.match(/\d{4}/)
RollsForward(t, now, sd) == t < now /\ NoYearInString(sd)

\* now.getFullYear() + 1
RolledYear_sameYear(now, tz) == GetFullYear(now, tz)
RolledYear(now, tz) == GetFullYear(now, tz) + 1

\* dateStart: Date.UTC(targetDate.getFullYear(), getMonth(), getDate(), 0, 0, 0, 0)
DateStart(t, tz) == DateUTC(GetFullYear(t, tz), GetDayOfYear(t, tz), 0)
\* dateEnd: Date.UTC(..., 23, 59, 59, 999), the last instant of that day
DateEnd(t, tz) == DateUTC(GetFullYear(t, tz), GetDayOfYear(t, tz), 0) + HoursPerDay - 1

\* Step 2 of getNearbyLaunches: [ok, targetDate, dateStart, dateEnd]
ResolveDate(specificDate, now, tz) ==
    IF specificDate = <<>>
    THEN [ok |-> TRUE, targetDate |-> <<>>, dateStart |-> <<>>, dateEnd |-> <<>>]
    ELSE LET sd == specificDate[1]
             parsed == ParseDate(sd, tz)
         IN IF parsed = <<>>
            THEN [ok |-> FALSE, targetDate |-> <<>>, dateStart |-> <<>>, dateEnd |-> <<>>]
            ELSE LET t == IF RollsForward(parsed[1], now, sd)
                          THEN SetFullYear(parsed[1], tz, RolledYear(now, tz))
                          ELSE parsed[1]
                 IN [ok |-> TRUE, targetDate |-> <<t>>,
                     dateStart |-> <<DateStart(t, tz)>>,
                     dateEnd |-> <<DateEnd(t, tz)>>]

(***************************************************************************)
(* How a block of code completes: it returns a value or it throws. Every   *)
(* public operation is a try block followed by a catch handler.            *)
(***************************************************************************)
Return(v) == [type |-> "return", value |-> v]
Throw(e) == [type |-> "throw", value |-> e]

(***************************************************************************)
(* geocodeLocation. g is what makeApiRequestWithRetry and response.json()  *)
(* give: kind "null" (no response), "throws" (json() rejects or the body   *)
(* is not a list of places) or "data".                                     *)
(***************************************************************************)
\* the try block
geocodeLocationTry(g) ==
    IF g.kind = "throws" THEN Throw("SyntaxError")
    ELSE IF g.kind = "data" /\ Len(g.data) > 0
    THEN Return(<<[name |-> g.data[1].name, latitude |-> g.data[1].lat,
                   longitude |-> g.data[1].lon]>>)
    ELSE Return(<<>>)

\* catch (err) { return null }
geocodeLocationCatch(c) == Return(<<>>)

\* how the call completes
geocodeLocationSettles(g) ==
    LET c == geocodeLocationTry(g)
    IN IF c.type = "throw" THEN geocodeLocationCatch(c) ELSE c

\* the value the caller awaits
geocodeLocation(g) == geocodeLocationSettles(g).value

(***************************************************************************)
(* getWeatherData. w is what makeApiRequestWithRetry and response.json()   *)
(* give: kind "null", "nolist" (no data.list), "throws" (json() rejects or *)
(* a sample has no main block) or "list".                                  *)
(***************************************************************************)
RECURSIVE DayKeysOf(_, _)
\* the keys of dailyMap in insertion order
DayKeysOf(list, seen) ==
    IF list = <<>> THEN seen
    ELSE LET k == DayKey(Head(list).dt)
         IN DayKeysOf(Tail(list),
                      IF \E i \in 1..Len(seen) : seen[i] = k THEN seen ELSE Append(seen, k))

\* dailyMap.get(dayKey)
Bucket(list, k) == SelectSeq(list, LAMBDA item : DayKey(item.dt) = k)

\* items.find(hour >= 11 && hour <= 14) || items[0]
IsMidday(item) == UTCHours(item.dt) >= 11 /\ UTCHours(item.dt) <= 14
MiddayItem(items) ==
    LET mid == SelectSeq(items, IsMidday)
    IN IF mid # <<>> THEN mid[1] ELSE items[1]

RECURSIVE SumOf(_, _)
\* items.reduce((sum, i) => sum + (i.<field>?.['3h'] || 0), 0)
SumOf(items, field) ==
    IF items = <<>> THEN 0 ELSE Head(items)[field] + SumOf(Tail(items), field)

\* one DailyWeather (the fields the correlation reads)
DailyWeatherOf(k, items) ==
    LET m == MiddayItem(items)
    IN [date_raw |-> k * HoursPerDay,
        humidity |-> m.humidity,
        main |-> m.main,
        clouds |-> m.clouds,
        precipitation |-> SumOf(items, "rain"),
        snow |-> SumOf(items, "snow")]

KeptDays_noCut(keys, days) == keys
\* if (dayCount >= days) break
KeptDays(keys, days) == SubSeq(keys, 1, IF Len(keys) < days THEN Len(keys) ELSE days)

\* the try block
getWeatherDataTry(w, days) ==
    CASE w.kind = "null" ->
            Return([forecasts |-> <<>>, days_count |-> 0,
                    error |-> <<"Failed to fetch weather data after retries (rate limit or API issue)">>])
      [] w.kind = "nolist" ->
            Return([forecasts |-> <<>>, days_count |-> 0,
                    error |-> <<"No weather data available">>])
      [] w.kind = "throws" -> Throw("SyntaxError")
      [] OTHER ->
            LET keys == KeptDays(DayKeysOf(w.list, <<>>), days)
                fc == [i \in 1..Len(keys) |-> DailyWeatherOf(keys[i], Bucket(w.list, keys[i]))]
            IN Return([forecasts |-> fc, days_count |-> Len(fc), error |-> <<>>])

getWeatherDataCatch_rethrow(c) == c
\* catch (err) { return { ..., forecasts: [], days_count: 0, error: String(err) } }
getWeatherDataCatch(c) ==
    Return([forecasts |-> <<>>, days_count |-> 0, error |-> <<c.value>>])

\* how the call completes
getWeatherDataSettles(w, days) ==
    LET c == getWeatherDataTry(w, days)
    IN IF c.type = "throw" THEN getWeatherDataCatch(c) ELSE c

\* the value the caller awaits
getWeatherData(w, days) == getWeatherDataSettles(w, days).value

\* forecastDay === targetDay
SameDayAsTarget(forecast, targetDate, tz) ==
    DayKey(forecast.date_raw) = DayKey(targetDate)

\* Step 3, the post-filter for a specific date
FilterForDate(wd, specificDate, targetDate, tz) ==
    IF specificDate # <<>> /\ targetDate # <<>>
    THEN LET kept == SelectSeq(wd.forecasts,
                               LAMBDA f : SameDayAsTarget(f, targetDate[1], tz))
         IN [wd EXCEPT !.forecasts = kept, !.days_count = Len(kept)]
    ELSE wd

(***************************************************************************)
(* getNextLaunch. f is what makeApiRequestWithRetry and response.json()    *)
(* give: kind "null", "throws" (json() rejects) or "data" with results,    *)
(* the upstream records.                                                   *)
(***************************************************************************)
\* statusFilter && !statusName.toLowerCase().includes(statusFilter.toLowerCase())
\* (a filter of <<>> is null/undefined/"" and matches everything)
FilterRejects(name, filter) ==
    filter # <<>> /\ ~Includes(ToLowerCase(name), ToLowerCase(filter))

\* the projection of one upstream record (the fields the correlation reads)
LaunchOf(launch) ==
    [id |-> launch.id,
     status |-> launch.status,
     launch_service_provider |-> launch.provider,
     net_raw |-> launch.net,
     latitude |-> launch.lat,
     longitude |-> launch.lon]

RECURSIVE ScanLaunches(_, _, _, _, _)
\* the for loop over data.results: push each match, break at maxResults
ScanLaunches(feed, statusFilter, providerFilter, maxResults, filtered) ==
    IF feed = <<>> THEN filtered
    ELSE LET launch == Head(feed)
         IN IF \/ FilterRejects(launch.status, statusFilter)
               \/ FilterRejects(launch.provider, providerFilter)
            THEN ScanLaunches(Tail(feed), statusFilter, providerFilter,
                              maxResults, filtered)
            ELSE LET pushed == Append(filtered, LaunchOf(launch))
                 IN IF Len(pushed) >= maxResults THEN pushed
                    ELSE ScanLaunches(Tail(feed), statusFilter, providerFilter,
                                      maxResults, pushed)

\* the try block
getNextLaunchTry(f, statusFilter, providerFilter, maxResults) ==
    IF f.kind = "throws" THEN Throw("SyntaxError")
    ELSE IF f.kind = "null" \/ f.results = <<>> THEN Return(<<>>)
    ELSE Return(ScanLaunches(f.results, statusFilter, providerFilter, maxResults, <<>>))

\* catch (error) { return [] }
getNextLaunchCatch(c) == Return(<<>>)

\* how the call completes
getNextLaunchSettles(f, statusFilter, providerFilter, maxResults) ==
    LET c == getNextLaunchTry(f, statusFilter, providerFilter, maxResults)
    IN IF c.type = "throw" THEN getNextLaunchCatch(c) ELSE c

\* the value the caller awaits
getNextLaunch(f, statusFilter, providerFilter, maxResults) ==
    getNextLaunchSettles(f, statusFilter, providerFilter, maxResults).value

Go == <<"G", "o">>

(***************************************************************************)
(* calculateDistance, for two points on one meridian (lon1 = lon2), where  *)
(* the haversine distance is R * pi / 180 * |lat2 - lat1|. Metres.         *)
(* A coordinate is [t, v]: t is "num", "null" or "undefined"; arithmetic   *)
(* on null uses 0.                                                         *)
(***************************************************************************)
MetresPerDegree == 111195

Num(v) == [t |-> "num", v |-> v]
Undefined == [t |-> "undefined", v |-> 0]
Null == [t |-> "null", v |-> 0]
Abs(x) == IF x < 0 THEN -x ELSE x

calculateDistance(lat1, lon1, lat2, lon2) == MetresPerDegree * Abs(lat2.v - lat1.v)

\* Math.round(distance * 100) / 100, in hundredths of a km
RoundedKm(metres) == (metres + 5) \div 10

\* launchTime within the active window (Step 5)
InWindow(launchTime, specificDate, dateStart, dateEnd, startDate, cutoff) ==
    IF specificDate # <<>> /\ dateStart # <<>> /\ dateEnd # <<>>
    THEN launchTime >= dateStart[1] /\ launchTime <= dateEnd[1]
    ELSE ~(launchTime > cutoff \/ launchTime < startDate)

\* distance <= maxDistanceKm
WithinRange(metres, maxDistanceKm) == metres <= maxDistanceKm * 1000

RECURSIVE FilterNearby(_, _, _, _)
\* Step 5: the loop that fills nearby; win holds specificDate, dateStart,
\* dateEnd, startDate and cutoff
FilterNearby(list, loc, maxDistanceKm, win) ==
    IF list = <<>> THEN <<>>
    ELSE LET launch == Head(list)
             rest == FilterNearby(Tail(list), loc, maxDistanceKm, win)
         IN IF launch.net_raw = <<>> THEN rest
            ELSE IF ~InWindow(launch.net_raw[1], win.specificDate, win.dateStart,
                              win.dateEnd, win.startDate, win.cutoff) THEN rest
            ELSE IF launch.latitude.t = "undefined" \/ launch.longitude.t = "undefined"
                 THEN rest
            ELSE LET distance == calculateDistance(loc.latitude, loc.longitude,
                                                   launch.latitude, launch.longitude)
                 IN IF WithinRange(distance, maxDistanceKm)
                    THEN <<[id |-> launch.id, status |-> launch.status,
                            net_raw |-> launch.net_raw, latitude |-> launch.latitude,
                            longitude |-> launch.longitude,
                            distance_km |-> RoundedKm(distance)]>> \o rest
                    ELSE rest

\* (a.distance_km || 0) - (b.distance_km || 0) <= 0: a stays before b
ComesBefore_descending(a, b) == a.distance_km >= b.distance_km
ComesBefore(a, b) == a.distance_km <= b.distance_km

RECURSIVE InsertByDistance(_, _)
InsertByDistance(x, sorted) ==
    IF sorted = <<>> THEN <<x>>
    ELSE IF ComesBefore(Head(sorted), x)
         THEN <<Head(sorted)>> \o InsertByDistance(x, Tail(sorted))
         ELSE <<x>> \o sorted

RECURSIVE SortByDistance(_)
\* nearby.sort(...): Array.prototype.sort is stable
SortByDistance(list) ==
    IF list = <<>> THEN <<>>
    ELSE InsertByDistance(list[Len(list)], SortByDistance(SubSeq(list, 1, Len(list) - 1)))

(***************************************************************************)
(* Step 6 of getNearbyLaunches: the visibility of one launch.              *)
(***************************************************************************)
BadWeatherList ==
    { <<"c","l","o","u","d","s">>, <<"r","a","i","n">>,
      <<"t","h","u","n","d","e","r","s","t","o","r","m">>, <<"s","n","o","w">>,
      <<"d","r","i","z","z","l","e">>, <<"m","i","s","t">>, <<"f","o","g">> }

MatchingWeather_nearestDay(net, forecasts) ==
    LET hits == SelectSeq(forecasts, LAMBDA f : DayKey(f.date_raw) = DayKey(net))
    IN IF hits # <<>> THEN <<hits[1]>>
       ELSE IF forecasts # <<>> THEN <<forecasts[1]>> ELSE <<>>
\* the first forecast whose day equals the launch day (<<>> is null)
MatchingWeather(net, forecasts) ==
    LET hits == SelectSeq(forecasts, LAMBDA f : DayKey(f.date_raw) = DayKey(net))
    IN IF hits = <<>> THEN <<>> ELSE <<hits[1]>>

\* [...].includes(weatherMain), weatherMain lower-cased
BadWeather(mw) == ToLowerCase(mw.main) \in BadWeatherList
HighClouds(mw) == mw.clouds > 30
HighHumidity(mw) == mw.humidity > 80
HighPrecipitation(mw) == mw.precipitation > 5
HighSnow(mw) == mw.snow > 5

\* visibilityReasons after the five pushes
ReasonsOf(mw) ==
    (IF BadWeather(mw) THEN <<"Poor weather">> ELSE <<>>)
    \o (IF HighClouds(mw) THEN <<"High cloud cover">> ELSE <<>>)
    \o (IF HighHumidity(mw) THEN <<"High humidity">> ELSE <<>>)
    \o (IF HighPrecipitation(mw) THEN <<"Heavy precipitation">> ELSE <<>>)
    \o (IF HighSnow(mw) THEN <<"Heavy snow">> ELSE <<>>)

\* visibilityStatus
StatusOf_noSnowRule(mw) ==
    IF Len(ReasonsOf(mw)) >= 3 \/ (BadWeather(mw) /\ HighClouds(mw))
    THEN "Not Visible"
    ELSE IF Len(ReasonsOf(mw)) >= 1 THEN "Low Visibility" ELSE "Good"
StatusOf(mw) ==
    IF Len(ReasonsOf(mw)) >= 3 \/ HighSnow(mw) \/ (BadWeather(mw) /\ HighClouds(mw))
    THEN "Not Visible"
    ELSE IF Len(ReasonsOf(mw)) >= 1 THEN "Low Visibility" ELSE "Good"

VisibilityBlock_unknownSeen(status, reasons) ==
    [status |-> status,
     can_be_seen |-> status # "Not Visible",
     reasons |-> IF Len(reasons) > 0 THEN reasons ELSE <<"Clear conditions expected">>]
VisibilityBlock_noDefault(status, reasons) ==
    [status |-> status,
     can_be_seen |-> status \in {"Good", "Low Visibility"},
     reasons |-> reasons]
\* the visibility block
VisibilityBlock(status, reasons) ==
    [status |-> status,
     can_be_seen |-> status \in {"Good", "Low Visibility"},
     reasons |-> IF Len(reasons) > 0 THEN reasons ELSE <<"Clear conditions expected">>]

\* one iteration of the Step 6 loop: the launch with weather_forecast (<<>> when
\* none is attached) and visibility
CheckVisibility(launch, forecasts) ==
    LET mw == MatchingWeather(launch.net_raw[1], forecasts)
    IN IF mw # <<>>
       THEN [id |-> launch.id, status |-> launch.status, net_raw |-> launch.net_raw,
             latitude |-> launch.latitude, longitude |-> launch.longitude,
             distance_km |-> launch.distance_km,
             weather_forecast |->
                <<[main |-> mw[1].main, clouds |-> mw[1].clouds,
                   humidity |-> mw[1].humidity,
                   precipitation |-> mw[1].precipitation, snow |-> mw[1].snow]>>,
             visibility |-> VisibilityBlock(StatusOf(mw[1]), ReasonsOf(mw[1]))]
       ELSE [id |-> launch.id, status |-> launch.status, net_raw |-> launch.net_raw,
             latitude |-> launch.latitude, longitude |-> launch.longitude,
             distance_km |-> launch.distance_km,
             weather_forecast |-> <<>>,
             visibility |->
                VisibilityBlock("Unknown",
                                <<"No weather forecast available for launch date">>)]

\* if (nearby.length === 0) result.weather = weatherData
IncludesWeather_always(found) == TRUE
IncludesWeather_never(found) == FALSE
IncludesWeather(found) == Len(found) = 0

\* the result object
Assemble(loc, request, found, wd, targetDate) ==
    LET params == [maxDistanceKm |-> request.maxDistanceKm,
                   daysAhead |-> request.daysAhead,
                   date_filter_active |->
                       (request.specificDate # <<>> /\ targetDate # <<>>)]
    IN IF IncludesWeather(found)
       THEN [location |-> loc, search_params |-> params,
             launches_found |-> Len(found), launches |-> found, weather |-> wd]
       ELSE [location |-> loc, search_params |-> params,
             launches_found |-> Len(found), launches |-> found]

\* { error: `Location not found: ${location}`, location }
LocationNotFound_noName(location) ==
    [error |-> <<"Location not found: ">>, location |-> location]
LocationNotFound(location) ==
    [error |-> <<"Location not found: ", location>>, location |-> location]
\* { error: `Invalid date format: ${specificDate}. Try ...`, location }
InvalidDate(location) ==
    [error |-> <<"Invalid date format: ">>, location |-> location]
\* catch (err) { return { error: `Processing error: ${String(err)}`, location } }
getNearbyLaunchesCatch(c, location) ==
    Return([error |-> <<"Processing error: ", c.value>>, location |-> location])

-----------------------------------------------------------------------------
(***************************************************************************)
(* SpecNearby: one getNearbyLaunches request, one step per awaited call.   *)
(* Each upstream call is what makeApiRequestWithRetry returned for it (a   *)
(* response or null, see SpecFetch) together with the parsed body.         *)
(***************************************************************************)
\* Bounds of the model
MaxSamples == 2
MaxFeed == 2

\* specificDate ? 16 : daysAhead
MaxForecastDays == 16

SeqsUpTo(S, n) == UNION {[1..k -> S] : k \in 0..n}

Str_Clear == <<"C","l","e","a","r">>
Str_Rain == <<"R","a","i","n">>
Str_RAIN == <<"R","A","I","N">>
Str_Clouds == <<"C","l","o","u","d","s">>
Str_Snow == <<"S","n","o","w">>
Str_Haze == <<"H","a","z","e">>
Str_TBD == <<"T","B","D">>
Str_SpaceX == <<"S","p","a","c","e","X">>

\* the clock and the local offset of the process
Envs == [now : {DateUTC(2026, 305, 10), DateUTC(2026, 364, 22)}, tz : {-5, 0, 5}]

\* specificDate: <<>> is undefined; form iso is "2026-11-04", form text is
\* "November 4, 2026", "Nov 4" (no year: the parser assigns 2001) or "11/4/26"
SpecificDates ==
    { <<>>,
      <<[form |-> "iso", year4 |-> TRUE, y |-> 2026, doy |-> 307]>>,
      <<[form |-> "text", year4 |-> TRUE, y |-> 2026, doy |-> 307]>>,
      <<[form |-> "text", year4 |-> TRUE, y |-> 2025, doy |-> 307]>>,
      <<[form |-> "text", year4 |-> FALSE, y |-> 2001, doy |-> 307]>>,
      <<[form |-> "text", year4 |-> FALSE, y |-> 2026, doy |-> 307]>>,
      <<[form |-> "text", year4 |-> FALSE, y |-> 2026, doy |-> 300]>>,
      <<[form |-> "invalid", year4 |-> FALSE, y |-> 0, doy |-> 0]>> }

Requests ==
    [location : {"Atlantis", "Accra"}, maxDistanceKm : {500, 1000},
     daysAhead : {1, 3}, maxResults : {1, 2}, specificDate : SpecificDates]

Places ==
    { [name |-> "Atlantis", lat |-> Num(28), lon |-> Num(0)],
      [name |-> "Accra", lat |-> Num(5), lon |-> Num(0)] }

GeocodeOutcomes ==
    { [kind |-> "null", data |-> <<>>], [kind |-> "throws", data |-> <<>>] }
    \cup [kind : {"data"}, data : SeqsUpTo(Places, 1)]

\* what the geocoder can answer to a query for location: a place comes back
\* under the name it was asked for
GeocodeOutcomesFor(location) ==
    { g \in GeocodeOutcomes : g.data # <<>> => g.data[1].name = location }

SamplePool ==
    { [dt |-> DateUTC(2026, 307, 9), main |-> Str_Clear, clouds |-> 0,
       humidity |-> 50, rain |-> 0, snow |-> 0],
      [dt |-> DateUTC(2026, 307, 12), main |-> Str_Rain, clouds |-> 50,
       humidity |-> 90, rain |-> 3, snow |-> 0],
      [dt |-> DateUTC(2026, 306, 21), main |-> Str_Clouds, clouds |-> 20,
       humidity |-> 60, rain |-> 3, snow |-> 0],
      [dt |-> DateUTC(2026, 305, 12), main |-> Str_Snow, clouds |-> 40,
       humidity |-> 85, rain |-> 0, snow |-> 6] }

ForecastOutcomes ==
    { [kind |-> "null", list |-> <<>>], [kind |-> "nolist", list |-> <<>>],
      [kind |-> "throws", list |-> <<>>] }
    \cup [kind : {"list"}, list : SeqsUpTo(SamplePool, MaxSamples)]

LaunchPool ==
    { [id |-> "A", status |-> Go, provider |-> Str_SpaceX,
       net |-> <<DateUTC(2026, 307, 10)>>, lat |-> Num(28), lon |-> Num(0)],
      [id |-> "B", status |-> Go, provider |-> Str_SpaceX,
       net |-> <<DateUTC(2026, 307, 23)>>, lat |-> Num(30), lon |-> Num(0)],
      [id |-> "C", status |-> Go, provider |-> Str_SpaceX,
       net |-> <<DateUTC(2026, 306, 22)>>, lat |-> Num(34), lon |-> Num(0)],
      [id |-> "D", status |-> Str_TBD, provider |-> Str_SpaceX,
       net |-> <<DateUTC(2026, 307, 10)>>, lat |-> Num(28), lon |-> Num(0)],
      [id |-> "G", status |-> Go, provider |-> Str_SpaceX,
       net |-> <<>>, lat |-> Num(28), lon |-> Num(0)],
      [id |-> "H", status |-> Go, provider |-> Str_SpaceX,
       net |-> <<DateUTC(2026, 307, 10)>>, lat |-> Null, lon |-> Null],
      [id |-> "I", status |-> Go, provider |-> Str_SpaceX,
       net |-> <<DateUTC(2026, 307, 10)>>, lat |-> Undefined, lon |-> Undefined] }

LaunchOutcomes ==
    { [kind |-> "null", results |-> <<>>], [kind |-> "throws", results |-> <<>>] }
    \cup [kind : {"data"}, results : SeqsUpTo(LaunchPool, MaxFeed)]

\* getNearbyLaunches completes with c: the returned promise settles
Finish(c) ==
    /\ result' = <<c.value>>
    /\ settled' = IF c.type = "throw" THEN "rejected" ELSE "resolved"
    /\ pc' = "done"

\* await geocodeLocation(location), then Step 2 up to the next await
GeocodeStep ==
    /\ pc = "geocode"
    /\ \E g \in GeocodeOutcomesFor(req.location) :
         LET a == geocodeLocationSettles(g)
             d == ResolveDate(req.specificDate, env.now, env.tz)
         IN /\ issued' = Append(issued, "geocode")
            /\ IF a.type = "throw"
               THEN /\ Finish(getNearbyLaunchesCatch(a, req.location))
                    /\ UNCHANGED <<locData, dates>>
               ELSE IF a.value = <<>>
               THEN /\ locData' = a.value
                    /\ Finish(Return(LocationNotFound(req.location)))
                    /\ UNCHANGED dates
               ELSE IF ~d.ok
               THEN /\ locData' = a.value
                    /\ Finish(Return(InvalidDate(req.location)))
                    /\ UNCHANGED dates
               ELSE /\ locData' = a.value
                    /\ dates' = d
                    /\ pc' = "forecast"
                    /\ UNCHANGED <<result, settled>>
    /\ UNCHANGED <<req, env, weatherData, launches, nearby, fetchVars, upstream, temporalVars>>

\* await getWeatherData(...), then the date post-filter
ForecastStepOn(w) ==
    /\ pc = "forecast"
    /\ LET days == IF req.specificDate # <<>> THEN MaxForecastDays ELSE req.daysAhead
           a == getWeatherDataSettles(w, days)
       IN IF a.type = "throw"
          THEN /\ Finish(getNearbyLaunchesCatch(a, req.location))
               /\ UNCHANGED weatherData
          ELSE /\ weatherData' = FilterForDate(a.value, req.specificDate,
                                               dates.targetDate, env.tz)
               /\ pc' = "launches"
               /\ UNCHANGED <<result, settled>>
    /\ issued' = Append(issued, "forecast")
    /\ UNCHANGED <<req, env, locData, dates, launches, nearby, fetchVars, upstream, temporalVars>>

\* the forecast service answers with any of its outcomes
ForecastStep == \E w \in ForecastOutcomes : ForecastStepOn(w)

\* const cutoff = ... new Date(Date.now() + daysAhead * 86400000)
Cutoff(request, d, now) ==
    IF request.specificDate # <<>> /\ d.dateEnd # <<>>
    THEN d.dateEnd[1] ELSE now + request.daysAhead * HoursPerDay
\* const startDate = ... new Date()
StartDate(request, d, now) ==
    IF request.specificDate # <<>> /\ d.dateStart # <<>> THEN d.dateStart[1] ELSE now

\* await getNextLaunch("Go", undefined, maxResults), then Steps 5 to 9
LaunchStep ==
    /\ pc = "launches"
    /\ \E f \in LaunchOutcomes :
         LET a == getNextLaunchSettles(f, Go, <<>>, req.maxResults)
             got == a.value
             kept == FilterNearby(got, locData[1], req.maxDistanceKm,
                                  [specificDate |-> req.specificDate,
                                   dateStart |-> dates.dateStart,
                                   dateEnd |-> dates.dateEnd,
                                   startDate |-> StartDate(req, dates, env.now),
                                   cutoff |-> Cutoff(req, dates, env.now)])
             sorted == SortByDistance(kept)
             seen == [i \in 1..Len(sorted) |->
                         CheckVisibility(sorted[i], weatherData.forecasts)]
         IN IF a.type = "throw"
            THEN /\ Finish(getNearbyLaunchesCatch(a, req.location))
                 /\ UNCHANGED <<launches, nearby>>
            ELSE /\ launches' = got
                 /\ nearby' = seen
                 /\ Finish(Return(Assemble(locData[1], req, seen, weatherData,
                                           dates.targetDate)))
    /\ issued' = Append(issued, "launches")
    /\ UNCHANGED <<req, env, locData, dates, weatherData, fetchVars, upstream, temporalVars>>

FetchIdle ==
    /\ fpc = "idle"
    /\ maxRetries = 0
    /\ backoffFactor = 0
    /\ attempt = 0
    /\ wait = 0
    /\ fres = "pending"
    /\ log = <<>>
    /\ sleeps = <<>>

InitNearby ==
    /\ pc = "geocode"
    /\ req \in Requests
    /\ env \in Envs
    /\ issued = <<>>
    /\ locData = <<>>
    /\ dates = <<>>
    /\ weatherData = <<>>
    /\ launches = <<>>
    /\ nearby = <<>>
    /\ result = <<>>
    /\ FetchIdle
    /\ ServerIdle
    /\ CallIdle

NextNearby == GeocodeStep \/ ForecastStep \/ LaunchStep

SpecNearby == InitNearby /\ [][NextNearby]_vars

-----------------------------------------------------------------------------
(***************************************************************************)
(* SpecVis: Step 6 alone, applied to one launch and the forecast of its    *)
(* day, over a grid of forecast values around the thresholds.              *)
(***************************************************************************)
ForecastGrid ==
    [date_raw : {DateUTC(2026, 307, 0)},
     main : {Str_Clear, Str_Rain, Str_RAIN, Str_Clouds, Str_Snow, Str_Haze},
     clouds : {0, 30, 31, 50},
     humidity : {0, 80, 81},
     precipitation : {0, 5, 6},
     snow : {0, 5, 6}]

InitVis ==
    /\ pc = "visibility"
    /\ req = <<>>
    /\ env = <<>>
    /\ issued = <<>>
    /\ locData = <<>>
    /\ dates = <<>>
    /\ \E f \in ForecastGrid :
         weatherData = [forecasts |-> <<f>>, days_count |-> 1, error |-> <<>>]
    /\ launches = <<>>
    /\ nearby = <<[id |-> "A", status |-> Go, net_raw |-> <<DateUTC(2026, 307, 10)>>,
                   latitude |-> Num(28), longitude |-> Num(0), distance_km |-> 0]>>
    /\ result = <<>>
    /\ FetchIdle
    /\ ServerIdle
    /\ CallIdle

\* the Step 6 loop over nearby
VisibilityStep ==
    /\ pc = "visibility"
    /\ nearby' = [i \in 1..Len(nearby) |->
                     CheckVisibility(nearby[i], weatherData.forecasts)]
    /\ pc' = "done"
    /\ UNCHANGED <<req, env, issued, locData, dates, weatherData, launches, result,
                   fetchVars, callVars, temporalVars>>

NextVis == VisibilityStep

SpecVis == InitVis /\ [][NextVis]_vars

-----------------------------------------------------------------------------
\* Helpers of the statements about getNearbyLaunches

Returned == pc = "done" /\ result # <<>>
IsError(r) == "error" \in DOMAIN r
\* the request ran to Step 9
Completed == Returned /\ ~IsError(result[1])

\* C5: when geocoding yields null the result is exactly {error: "Location not
\* found: <placeName>", location: <placeName>} and neither the forecast nor the
\* launch fetch is issued.
C5_LocationNotFound ==
    (pc # "geocode" /\ locData = <<>> /\ issued # <<>>)
        => /\ pc = "done"
           /\ result = <<[error |-> <<"Location not found: ", req.location>>,
                          location |-> req.location]>>
           /\ issued = <<"geocode">>
           /\ ~ENABLED ForecastStep
           /\ ~ENABLED LaunchStep

C5_Witness ==
    /\ pc = "done"
    /\ issued = <<"geocode">>
    /\ locData = <<>>
    /\ req.location = "Atlantis"
    /\ result[1].error = <<"Location not found: ", "Atlantis">>

\* C6: with a specific date resolving to UTC day D, every forecast entry and
\* every launch of the returned result has UTC day key D.
C6_SameUtcDay ==
    (Completed /\ req.specificDate # <<>>)
        => LET D == DayKey(dates.targetDate[1])
               r == result[1]
           IN /\ \A i \in 1..Len(r.launches) : DayKey(r.launches[i].net_raw[1]) = D
              /\ "weather" \in DOMAIN r =>
                    \A i \in 1..Len(r.weather.forecasts) :
                        DayKey(r.weather.forecasts[i].date_raw) = D

\* C7: a string with no 4-digit year whose parsed date is before now resolves to
\* next year (the local year of now, plus one); a string with a 4-digit year is
\* never rolled forward.
C7_RollToNextYear ==
    (pc \in {"forecast", "launches"} /\ req.specificDate # <<>>)
        => LET sd == req.specificDate[1]
               parsed == ParseDate(sd, env.tz)[1]
               t == dates.targetDate[1]
           IN /\ (~sd.year4 /\ parsed < env.now)
                    => GetFullYear(t, env.tz) = GetFullYear(env.now, env.tz) + 1
              /\ sd.year4 => t = parsed

C7_Witness ==
    /\ pc = "forecast"
    /\ req.specificDate # <<>>
    /\ ~req.specificDate[1].year4
    /\ req.specificDate[1].y = 2026
    /\ ParseDate(req.specificDate[1], env.tz)[1] < env.now
    /\ GetFullYear(env.now, env.tz) = 2026
    /\ GetFullYear(dates.targetDate[1], env.tz) = 2027

\* C8: the returned launches are sorted ascending by distance_km.
C8_SortedByDistance ==
    Completed
        => \A i \in 1..(Len(result[1].launches) - 1) :
              result[1].launches[i].distance_km <= result[1].launches[i + 1].distance_km

C8_Witness ==
    /\ Completed
    /\ Len(launches) = 2
    /\ launches[1].id = "B" /\ launches[2].id = "A"
    /\ Len(result[1].launches) = 2
    /\ result[1].launches[1].id = "A" /\ result[1].launches[2].id = "B"
    /\ result[1].launches[1].distance_km < result[1].launches[2].distance_km

\* C9: in every non-error result the weather field is present if and only if
\* no launch survived filtering (launches_found = 0).
C9_WeatherOnlyWhenNoLaunches ==
    Completed
        => /\ result[1].launches_found = Len(result[1].launches)
           /\ ("weather" \in DOMAIN result[1]) <=> (result[1].launches_found = 0)

C9_Witness ==
    /\ Completed
    /\ result[1].launches_found = 2
    /\ "weather" \notin DOMAIN result[1]
    /\ weatherData.forecasts # <<>>

\* C10: the status of a launch matched to a forecast is "Not Visible" if at least
\* three of the five adverse flags hold, or heavy snow, or poor weather with high
\* cloud; else "Low Visibility" if at least one holds; else "Good".
AdverseFlags(f) ==
    {n \in {"poor", "cloud", "humidity", "precipitation", "snow"} :
        \/ n = "poor" /\ ToLowerCase(f.main) \in
              { <<"c","l","o","u","d","s">>, <<"r","a","i","n">>,
                <<"t","h","u","n","d","e","r","s","t","o","r","m">>,
                <<"s","n","o","w">>, <<"d","r","i","z","z","l","e">>,
                <<"m","i","s","t">>, <<"f","o","g">> }
        \/ n = "cloud" /\ f.clouds > 30
        \/ n = "humidity" /\ f.humidity > 80
        \/ n = "precipitation" /\ f.precipitation > 5
        \/ n = "snow" /\ f.snow > 5}

ExpectedStatus(f) ==
    LET flags == AdverseFlags(f)
    IN IF Cardinality(flags) >= 3 \/ "snow" \in flags \/ {"poor", "cloud"} \subseteq flags
       THEN "Not Visible"
       ELSE IF Cardinality(flags) >= 1 THEN "Low Visibility" ELSE "Good"

C10_VisibilityStatus ==
    pc = "done"
        => \A i \in 1..Len(nearby) :
              LET f == weatherData.forecasts[1]
                  v == nearby[i].visibility
              IN /\ nearby[i].weather_forecast # <<>>
                 /\ v.status = ExpectedStatus(f)
                 /\ (f.main = Str_Clear /\ f.clouds = 0 /\ f.humidity = 0
                        /\ f.precipitation = 0 /\ f.snow = 0) => v.status = "Good"
                 /\ (f.main = Str_Rain /\ f.clouds = 50) => v.status = "Not Visible"

C10_Witness ==
    /\ pc = "done"
    /\ weatherData.forecasts[1].main = Str_RAIN
    /\ weatherData.forecasts[1].clouds = 30
    /\ weatherData.forecasts[1].humidity = 80
    /\ weatherData.forecasts[1].precipitation = 5
    /\ weatherData.forecasts[1].snow = 6
    /\ nearby[1].visibility.status = "Not Visible"


-----------------------------------------------------------------------------
(***************************************************************************)
(* SpecForecast: one call getWeatherData(lat, lon, days) on its own. The   *)
(* upstream payload is kept in upstream, the days argument in req, and the *)
(* returned WeatherData in weatherData.                                    *)
(***************************************************************************)
MaxList == 3
MaxDays == 3

ForecastPayloads ==
    { [kind |-> "null", list |-> <<>>], [kind |-> "nolist", list |-> <<>>],
      [kind |-> "throws", list |-> <<>>] }
    \cup [kind : {"list"}, list : SeqsUpTo(SamplePool, MaxList)]

InitForecast ==
    /\ pc = "getWeatherData"
    /\ req \in [days : 0..MaxDays]
    /\ env = <<>>
    /\ issued = <<>>
    /\ locData = <<>>
    /\ dates = <<>>
    /\ weatherData = <<>>
    /\ launches = <<>>
    /\ nearby = <<>>
    /\ result = <<>>
    /\ upstream \in ForecastPayloads
    /\ settled = "pending"
    /\ FetchIdle
    /\ ServerIdle

\* the body of getWeatherData up to its return
ForecastCall ==
    /\ pc = "getWeatherData"
    /\ LET a == getWeatherDataSettles(upstream, req.days)
       IN /\ weatherData' = a.value
          /\ settled' = IF a.type = "throw" THEN "rejected" ELSE "resolved"
    /\ pc' = "done"
    /\ UNCHANGED <<req, env, issued, locData, dates, launches, nearby, result,
                   upstream, fetchVars, temporalVars>>

NextForecast == ForecastCall

SpecForecast == InitForecast /\ [][NextForecast]_vars

\* Helpers of the statement about getWeatherData
ForecastReturned == pc = "done" /\ upstream # <<>> /\ upstream.kind = "list"
\* the UTC day of the i-th emitted forecast
EmittedDay(i) == DayKey(weatherData.forecasts[i].date_raw)
\* the UTC days that have a sample in the payload
SampleDays == { DayKey(upstream.list[i].dt) : i \in 1..Len(upstream.list) }
\* where a day first occurs in the payload
FirstIndex(k) ==
    CHOOSE i \in 1..Len(upstream.list) :
        /\ DayKey(upstream.list[i].dt) = k
        /\ \A j \in 1..(i - 1) : DayKey(upstream.list[j].dt) # k
MinOf(a, b) == IF a < b THEN a ELSE b

\* C11: for every accepted sample list and every days argument, the emitted
\* forecasts hold exactly one entry per distinct UTC day of the samples, in
\* the order in which each day first occurs in the list, cut off after the
\* first `days` days; days_count is the number emitted; and N >= 1 samples of
\* one UTC day give exactly one entry.
C11_OnePerDayInFirstSeenOrder ==
    ForecastReturned =>
        LET fc == weatherData.forecasts
            n == Len(fc)
        IN /\ weatherData.error = <<>>
           /\ n = MinOf(req.days, Cardinality(SampleDays))
           /\ weatherData.days_count = n
           /\ \A i \in 1..n : EmittedDay(i) \in SampleDays
           /\ \A i \in 1..n : \A j \in 1..n : i < j =>
                  /\ EmittedDay(i) # EmittedDay(j)
                  /\ FirstIndex(EmittedDay(i)) < FirstIndex(EmittedDay(j))
           /\ \A k \in SampleDays :
                  \/ \E i \in 1..n : EmittedDay(i) = k
                  \/ /\ n = req.days
                     /\ \A i \in 1..n : FirstIndex(EmittedDay(i)) < FirstIndex(k)
           /\ (Cardinality(SampleDays) = 1 /\ req.days >= 1) => n = 1

\* three samples, the later day first and seen twice, cut off after one day
C11_Witness ==
    /\ ForecastReturned
    /\ Len(upstream.list) = 3
    /\ Cardinality(SampleDays) = 2
    /\ DayKey(upstream.list[1].dt) = DayKey(upstream.list[3].dt)
    /\ DayKey(upstream.list[1].dt) > DayKey(upstream.list[2].dt)
    /\ req.days = 1
    /\ Len(weatherData.forecasts) = 1
    /\ EmittedDay(1) = DayKey(upstream.list[1].dt)


-----------------------------------------------------------------------------
(***************************************************************************)
(* SpecCatalog: one call getNextLaunch(statusFilter, providerFilter,       *)
(* maxResults) on its own. The upstream payload is kept in upstream, the   *)
(* arguments in req, and the returned list in launches.                    *)
(***************************************************************************)
MaxCatalog == 3
MaxResultsArg == 2

Str_NASA == <<"N","A","S","A">>

CatalogPool ==
    { [id |-> "P", status |-> Go, provider |-> Str_SpaceX,
       net |-> <<DateUTC(2026, 307, 10)>>, lat |-> Num(28), lon |-> Num(0)],
      [id |-> "Q", status |-> Str_TBD, provider |-> Str_SpaceX,
       net |-> <<DateUTC(2026, 307, 10)>>, lat |-> Num(28), lon |-> Num(0)],
      [id |-> "R", status |-> Go, provider |-> Str_NASA,
       net |-> <<DateUTC(2026, 306, 10)>>, lat |-> Num(30), lon |-> Num(0)],
      [id |-> "S", status |-> Str_TBD, provider |-> Str_NASA,
       net |-> <<>>, lat |-> Undefined, lon |-> Undefined] }

CatalogPayloads ==
    { [kind |-> "null", results |-> <<>>], [kind |-> "throws", results |-> <<>>] }
    \cup [kind : {"data"}, results : SeqsUpTo(CatalogPool, MaxCatalog)]

\* the arguments: <<>> is null, the default of statusFilter is "Go"
CatalogCalls ==
    [statusFilter : {<<>>, Go, <<"g","o">>, <<"T","b">>},
     providerFilter : {<<>>, <<"s","p","a","c","e">>, <<"N","a","S">>},
     maxResults : 0..MaxResultsArg]

InitCatalog ==
    /\ pc = "getNextLaunch"
    /\ req \in CatalogCalls
    /\ env = <<>>
    /\ issued = <<>>
    /\ locData = <<>>
    /\ dates = <<>>
    /\ weatherData = <<>>
    /\ launches = <<>>
    /\ nearby = <<>>
    /\ result = <<>>
    /\ upstream \in CatalogPayloads
    /\ settled = "pending"
    /\ FetchIdle
    /\ ServerIdle

\* the body of getNextLaunch up to its return
CatalogCall ==
    /\ pc = "getNextLaunch"
    /\ LET a == getNextLaunchSettles(upstream, req.statusFilter, req.providerFilter,
                                     req.maxResults)
       IN /\ launches' = a.value
          /\ settled' = IF a.type = "throw" THEN "rejected" ELSE "resolved"
    /\ pc' = "done"
    /\ UNCHANGED <<req, env, issued, locData, dates, weatherData, nearby, result,
                   upstream, fetchVars, temporalVars>>

NextCatalog == CatalogCall

SpecCatalog == InitCatalog /\ [][NextCatalog]_vars

\* Helpers of the statement about getNextLaunch
CatalogReturned == pc = "done" /\ upstream # <<>> /\ "results" \in DOMAIN upstream
\* one character without its case
Lower(c) == IF c \in DOMAIN UpperToLower THEN UpperToLower[c] ELSE c
\* filter occurs in name when case is ignored; an absent filter matches all
MatchesFilter(name, filter) ==
    \/ filter = <<>>
    \/ \E i \in 0..(Len(name) - Len(filter)) :
           \A j \in 1..Len(filter) : Lower(name[i + j]) = Lower(filter[j])
\* the feed records that pass both filters, in feed order
FeedMatches ==
    SelectSeq(upstream.results,
              LAMBDA l : /\ MatchesFilter(l.status, req.statusFilter)
                         /\ MatchesFilter(l.provider, req.providerFilter))
IdsOf(list) == [i \in 1..Len(list) |-> list[i].id]

\* C12: for every feed, filter pair and maxResults >= 0 the returned list is
\* exactly the first maxResults feed records, in feed order, whose status
\* name and provider name contain the filters case-insensitively (an absent
\* filter matches all); it never holds more than maxResults records.
C12_FirstMaxResultsMatches ==
    CatalogReturned =>
        /\ Len(launches) <= req.maxResults
        /\ IdsOf(launches)
             = IdsOf(SubSeq(FeedMatches, 1, MinOf(req.maxResults, Len(FeedMatches))))


-----------------------------------------------------------------------------
(***************************************************************************)
(* SpecOps: one call of any of the four exported operations, over every    *)
(* upstream outcome: no response, a body that cannot be read, a body       *)
(* without the expected fields, a well-formed body.                        *)
(***************************************************************************)
InitGeocode ==
    /\ pc = "geocodeLocation"
    /\ req \in [location : {"Atlantis", "Accra"}]
    /\ env = <<>>
    /\ issued = <<>>
    /\ locData = <<>>
    /\ dates = <<>>
    /\ weatherData = <<>>
    /\ launches = <<>>
    /\ nearby = <<>>
    /\ result = <<>>
    /\ upstream \in GeocodeOutcomes
    /\ settled = "pending"
    /\ FetchIdle
    /\ ServerIdle

\* the body of geocodeLocation up to its return
GeocodeCall ==
    /\ pc = "geocodeLocation"
    /\ LET a == geocodeLocationSettles(upstream)
       IN /\ locData' = a.value
          /\ settled' = IF a.type = "throw" THEN "rejected" ELSE "resolved"
    /\ pc' = "done"
    /\ UNCHANGED <<req, env, issued, dates, weatherData, launches, nearby, result,
                   upstream, fetchVars, temporalVars>>

InitOps == InitGeocode \/ InitForecast \/ InitCatalog \/ InitNearby

NextOps ==
    \/ GeocodeCall
    \/ ForecastCall
    \/ CatalogCall
    \/ GeocodeStep
    \/ ForecastStep
    \/ LaunchStep

SpecOps == InitOps /\ [][NextOps]_vars

\* Helpers of the statement about the four operations: which one was called
CalledGeocode == DOMAIN req = {"location"}
CalledForecast == DOMAIN req = {"days"}
CalledCatalog == "statusFilter" \in DOMAIN req
CalledNearby == "maxDistanceKm" \in DOMAIN req
\* the upstream call of a stand-alone operation failed or gave a broken body
UpstreamBroken == upstream # <<>> /\ upstream.kind \in {"null", "throws", "nolist"}

\* C13: none of the four operations raises. Whatever the upstream outcome,
\* the returned promise is never rejected, and once the operation is done it
\* has resolved with a structured value: a place or null, a WeatherData
\* (with an error string and no forecasts when the upstream call failed), a
\* list of launches (empty when it failed), a result or an error object.
C13_NeverRaises ==
    /\ settled # "rejected"
    /\ (pc # "done") => ENABLED NextOps
    /\ (pc = "done") =>
        /\ settled = "resolved"
        /\ CalledGeocode =>
              /\ UpstreamBroken => locData = <<>>
              /\ locData # <<>> => DOMAIN locData[1] = {"name", "latitude", "longitude"}
        /\ CalledForecast =>
              /\ DOMAIN weatherData = {"forecasts", "days_count", "error"}
              /\ weatherData.days_count = Len(weatherData.forecasts)
              /\ UpstreamBroken => weatherData.error # <<>> /\ weatherData.forecasts = <<>>
        /\ CalledCatalog =>
              /\ UpstreamBroken => launches = <<>>
              /\ \A i \in 1..Len(launches) : "net_raw" \in DOMAIN launches[i]
        /\ CalledNearby =>
              /\ result # <<>>
              /\ IF IsError(result[1])
                 THEN DOMAIN result[1] = {"error", "location"} /\ result[1].error # <<>>
                 ELSE /\ Len(issued) = 3
                      /\ result[1].launches_found = Len(result[1].launches)

\* stand-alone getWeatherData whose upstream body could not be read
C13_Witness ==
    /\ pc = "done"
    /\ CalledForecast
    /\ upstream.kind = "throws"
    /\ settled = "resolved"
    /\ weatherData.error = <<"SyntaxError">>


-----------------------------------------------------------------------------
\* Further statements about getNearbyLaunches (SpecNearby)

\* the launch fetch was made and filtering by date window and distance left
\* no launch
FilteredToNone == Returned /\ Len(issued) = 3 /\ nearby = <<>>

\* C14 as stated: when filtering leaves zero launches the outcome is a
\* structured error object, that is, the return carries an error string.
C14_ZeroLaunchesIsError ==
    FilteredToNone => IsError(result[1]) /\ result[1].error # <<>>

\* C14, amended: when filtering leaves zero launches the return is a normal
\* result without an error field: launches_found is 0, launches is empty and
\* the weather field carries the forecast of the request.
C14_ZeroLaunchesIsResult ==
    FilteredToNone =>
        /\ ~IsError(result[1])
        /\ result[1].launches_found = 0
        /\ result[1].launches = <<>>
        /\ "weather" \in DOMAIN result[1]
        /\ result[1].weather = weatherData

\* launches were fetched, none of them survived the filters
C14_Witness ==
    /\ FilteredToNone
    /\ launches # <<>>
    /\ ~IsError(result[1])
    /\ result[1].launches_found = 0


-----------------------------------------------------------------------------
(***************************************************************************)
(* SpecServer: the MCP server process. index.ts starts the HTTP server;    *)
(* the callback of app.listen runs once the server is listening and awaits *)
(* isTemporalAvailable(); the /mcp handler serves tool calls, of which     *)
(* pnctScrape calls executeTemporalWorkflow. Both reach                    *)
(* initializeTemporalClient, which tests the module-level temporalClient   *)
(* and, if it is null, awaits Connection.connect before it sets it.        *)
(* Callers: 0 is the startup check, 1..MaxRequests are /mcp requests.      *)
(* A connection is named by its number in the order of opening, a client   *)
(* by the connection it wraps.                                             *)
(***************************************************************************)
MaxRequests == 2

StartupCaller == 0
RequestIds == 1..MaxRequests
\* the tools a request can call: one that needs Temporal, one that does not
Tools == {"pnctScrape", "getNextLaunch"}

InitServer ==
    /\ server = "starting"
    /\ temporalClient = <<>>
    /\ temporalConnection = <<>>
    /\ connections = 0
    /\ calls = [c \in {StartupCaller} \cup RequestIds |->
                   [pc |-> "idle", tool |-> "none", client |-> <<>>]]
    /\ handled = {}
    /\ NearbyIdle
    /\ FetchIdle

\* initializeTemporalClient up to its first await, called by c
\* if (temporalClient) return temporalClient; ... await Connection.connect(...)
Enters(c, tool) ==
    IF temporalClient # <<>>
    THEN [calls EXCEPT ![c] = [pc |-> "returned", tool |-> tool, client |-> temporalClient]]
    ELSE [calls EXCEPT ![c] = [pc |-> "connecting", tool |-> tool, client |-> <<>>]]

\* app.listen(port, callback): the server listens, the callback starts the check
Listen ==
    /\ server = "starting"
    /\ server' = "listening"
    /\ calls' = Enters(StartupCaller, "isTemporalAvailable")
    /\ UNCHANGED <<temporalClient, temporalConnection, connections, handled>>
    /\ UNCHANGED <<fetchVars, nearbyVars, callVars>>

\* .on('error', ...): process.exit(1)
ListenError ==
    /\ server = "starting"
    /\ server' = "exited"
    /\ UNCHANGED <<temporalClient, temporalConnection, connections, calls, handled>>
    /\ UNCHANGED <<fetchVars, nearbyVars, callVars>>

\* the startup check has returned true
CheckSucceeded == calls[StartupCaller].pc = "returned"

\* app.post('/mcp', ...) takes up request r, which calls tool
HandleRequest(r, tool) ==
    /\ server = "listening"
    /\ calls[r].pc = "idle"
    /\ handled' = handled \cup {[id |-> r, tool |-> tool, checked |-> CheckSucceeded]}
    /\ calls' = IF tool = "pnctScrape"
                THEN Enters(r, tool)
                ELSE [calls EXCEPT ![r] = [pc |-> "done", tool |-> tool, client |-> <<>>]]
    /\ UNCHANGED <<server, temporalClient, temporalConnection, connections>>
    /\ UNCHANGED <<fetchVars, nearbyVars, callVars>>

\* Connection.connect resolves for caller c: lines 16 to 25
ConnectResolves(c) ==
    /\ server = "listening"
    /\ calls[c].pc = "connecting"
    /\ connections' = connections + 1
    /\ temporalConnection' = <<connections + 1>>
    /\ temporalClient' = <<connections + 1>>
    /\ calls' = [calls EXCEPT ![c].pc = "returned", ![c].client = <<connections + 1>>]
    /\ UNCHANGED <<server, handled>>
    /\ UNCHANGED <<fetchVars, nearbyVars, callVars>>

\* Connection.connect rejects for caller c: the error is rethrown (lines 26 to
\* 28); isTemporalAvailable then returns false and the callback exits
ConnectRejects(c) ==
    /\ server = "listening"
    /\ calls[c].pc = "connecting"
    /\ calls' = [calls EXCEPT ![c].pc = "threw"]
    /\ server' = IF c = StartupCaller THEN "exited" ELSE server
    /\ UNCHANGED <<temporalClient, temporalConnection, connections, handled>>
    /\ UNCHANGED <<fetchVars, nearbyVars, callVars>>

NextServer ==
    \/ Listen
    \/ ListenError
    \/ \E r \in RequestIds : \E tool \in Tools : HandleRequest(r, tool)
    \/ \E c \in {StartupCaller} \cup RequestIds : ConnectResolves(c)
    \/ \E c \in {StartupCaller} \cup RequestIds : ConnectRejects(c)

SpecServer == InitServer /\ [][NextServer]_vars

\* C16: across every interleaving of concurrent calls of
\* initializeTemporalClient (from isTemporalAvailable and from
\* executeTemporalWorkflow) at most one Temporal connection is ever opened
\* and every caller receives the same client instance.
C16_SingleConnection ==
    /\ connections <= 1
    /\ \A c \in DOMAIN calls : \A d \in DOMAIN calls :
           (calls[c].pc = "returned" /\ calls[d].pc = "returned")
               => calls[c].client = calls[d].client

\* C17: if the Temporal server is not connected at startup the process
\* exits, and no /mcp request is handled by a process whose availability
\* check has not succeeded.
C17_NoRequestBeforeCheck ==
    /\ (server # "off" /\ calls[StartupCaller].pc = "threw") => server = "exited"
    /\ \A h \in handled : h.checked


-----------------------------------------------------------------------------
\* Further statements about getNearbyLaunches (SpecNearby), continued

\* the launch has a pad coordinate
HasCoordinate(l) == l.latitude.t = "num" /\ l.longitude.t = "num"
\* the active window of the request: the target day when a date is given,
\* otherwise from now to now + daysAhead days
InActiveWindow(t) ==
    IF req.specificDate # <<>>
    THEN dates.dateStart[1] <= t /\ t <= dates.dateEnd[1]
    ELSE env.now <= t /\ t <= env.now + req.daysAhead * HoursPerDay
\* metres between the place of the request and the pad of l
MetresTo(l) == MetresPerDegree * Abs(l.latitude.v - locData[1].latitude.v)
\* the fetched launches the statement expects in the result
ExpectedNearby ==
    SelectSeq(launches,
              LAMBDA l : /\ l.net_raw # <<>>
                         /\ HasCoordinate(l)
                         /\ InActiveWindow(l.net_raw[1])
                         /\ MetresTo(l) <= req.maxDistanceKm * 1000)

\* C18: the returned launches are exactly the fetched launches that have a
\* known net and a known pad coordinate, lie inside the active window and
\* within maxDistanceKm; each carries distance_km <= maxDistanceKm; a launch
\* with no pad coordinate or no net never appears.
C18_ExactlyTheNearbyLaunches ==
    (Completed /\ Len(issued) = 3) =>
        LET got == result[1].launches
        IN /\ Len(got) = Len(ExpectedNearby)
           /\ {got[i].id : i \in 1..Len(got)}
                = {ExpectedNearby[i].id : i \in 1..Len(ExpectedNearby)}
           /\ \A i \in 1..Len(got) :
                  /\ got[i].distance_km <= req.maxDistanceKm * 100
                  /\ got[i].net_raw # <<>>
                  /\ HasCoordinate(got[i])


\* the forecasts of the request that fall on the UTC day of launch l
ForecastsOfDay(l) ==
    SelectSeq(weatherData.forecasts,
              LAMBDA f : DayKey(f.date_raw) = DayKey(l.net_raw[1]))
\* the weather snapshot taken from forecast f
SnapshotOf(f) ==
    [main |-> f.main, clouds |-> f.clouds, humidity |-> f.humidity,
     precipitation |-> f.precipitation, snow |-> f.snow]

HoursPerYear == DaysPerYear * HoursPerDay

\* C20: when the parsed specificDate is before now and the string holds no
\* 4-digit year, the date is rolled forward exactly one year: the target date
\* has the parsed month and day, its year is the parsed date's year plus one,
\* and it is the next occurrence of that date (not before now, and less than
\* a year after the parsed date's latest occurrence before now).
C20_RolledExactlyOneYear ==
    (pc \in {"forecast", "launches"} /\ req.specificDate # <<>>)
        => LET sd == req.specificDate[1]
               parsed == ParseDate(sd, env.tz)[1]
               t == dates.targetDate[1]
           IN (~sd.year4 /\ parsed < env.now)
                 => /\ GetDayOfYear(t, env.tz) = GetDayOfYear(parsed, env.tz)
                    /\ GetFullYear(t, env.tz) = GetFullYear(parsed, env.tz) + 1
                    /\ t = parsed + HoursPerYear
                    /\ t >= env.now
                    /\ t - HoursPerYear < env.now


\* C21: every launch of the result carries a visibility block whose reasons
\* list is never empty, whose can_be_seen is true exactly when status is
\* "Good" or "Low Visibility", and whose reasons list is the single default
\* string "Clear conditions expected" exactly when status is "Good".
C21_VisibilityBlockShape ==
    (Completed /\ Len(issued) = 3) =>
        \A i \in 1..Len(result[1].launches) :
            LET l == result[1].launches[i]
            IN /\ "visibility" \in DOMAIN l
               /\ l.visibility.status \in {"Good", "Low Visibility", "Not Visible", "Unknown"}
               /\ l.visibility.reasons # <<>>
               /\ l.visibility.can_be_seen
                    <=> (l.visibility.status \in {"Good", "Low Visibility"})
               /\ (l.visibility.reasons = <<"Clear conditions expected">>)
                    <=> (l.visibility.status = "Good")

\* two launches returned on one forecast day with clear weather: both "Good"
\* with the default reason
C21_Witness ==
    /\ Completed
    /\ Len(result[1].launches) = 2
    /\ \A i \in 1..2 :
          /\ result[1].launches[i].visibility.status = "Good"
          /\ result[1].launches[i].visibility.can_be_seen
          /\ result[1].launches[i].visibility.reasons = <<"Clear conditions expected">>
          /\ result[1].launches[i].weather_forecast # <<>>


-----------------------------------------------------------------------------
(***************************************************************************)
(* SpecFetchFair: makeApiRequestWithRetry where every awaited promise      *)
(* settles: each fetch gives one of the outcomes, each setTimeout fires,   *)
(* and the loop test is evaluated.                                         *)
(***************************************************************************)
SpecFetchFair ==
    /\ InitFetch
    /\ [][NextFetch]_vars
    /\ WF_vars(Attempt)
    /\ WF_vars(Backoff)
    /\ WF_vars(GiveUp)

\* how the call stands: the fetches issued so far are within maxRetries, a
\* call that has not returned has no value, and one that has returned gave a
\* response or null, a response only when its last fetch gave a 2xx
FetchOutcomeShape ==
    /\ Len(log) <= maxRetries
    /\ ~Terminated => fres = "pending"
    /\ Terminated =>
          /\ fres \in {"response", "null"}
          /\ (fpc = "success") <=> (fres = "response")
          /\ (fres = "response") => (Len(log) > 0 /\ Is2xx(Last(log)))

\* C22: for every sequence of upstream outcomes and every maxRetries >= 0
\* the call terminates after at most maxRetries fetches, ends in exactly one
\* of success (a response) or terminal failure (null), and returns a
\* response only if its last fetch returned a 2xx.
C22_TerminatesWithinMaxAttempts ==
    /\ []FetchOutcomeShape
    /\ <>[]Terminated

\* a call that used all its three fetches: rate limited, then a network
\* failure, then a 2xx
C22_Witness ==
    /\ maxRetries = 3
    /\ Len(log) = 3
    /\ Is429(log[1])
    /\ IsNetworkFailure(log[2])
    /\ Is2xx(log[3])
    /\ fpc = "success"
    /\ fres = "response"
    /\ Len(sleeps) = 2


\* the forecast step gave an empty forecast set with an error string
ForecastFailed ==
    /\ weatherData # <<>>
    /\ weatherData.error # <<>>
    /\ weatherData.forecasts = <<>>

\* C23: a failed forecast step does not abort the request. When
\* getWeatherData returned no forecasts and an error string, the launch
\* fetch and the filtering still run, every surviving launch gets status
\* "Unknown" with can_be_seen = false, and when at least one launch survives
\* the result has no error field and holds the forecast error string nowhere.
C23_ForecastFailureDoesNotAbort ==
    (pc \in {"launches", "done"} /\ ForecastFailed) =>
        /\ (pc = "launches") => ENABLED LaunchStep
        /\ (pc = "done") =>
              /\ Len(issued) = 3
              /\ issued[3] = "launches"
              /\ result # <<>>
              /\ ~IsError(result[1])
              /\ result[1].launches = nearby
              /\ \A i \in 1..Len(nearby) :
                    /\ nearby[i].visibility.status = "Unknown"
                    /\ ~nearby[i].visibility.can_be_seen
                    /\ \A k \in 1..Len(nearby[i].visibility.reasons) :
                          nearby[i].visibility.reasons[k] # weatherData.error[1]
              /\ (Len(nearby) >= 1) => "weather" \notin DOMAIN result[1]

\* the forecast fetch failed and two launches are returned
C23_Witness ==
    /\ pc = "done"
    /\ ForecastFailed
    /\ ~IsError(result[1])
    /\ Len(result[1].launches) = 2
    /\ \A i \in 1..2 : result[1].launches[i].visibility.status = "Unknown"
    /\ "weather" \notin DOMAIN result[1]

-----------------------------------------------------------------------------
(***************************************************************************)
(* SpecWindow: getNearbyLaunches without a date filter, with the answer of *)
(* the forecast service fixed when the request starts and kept in upstream *)
(* so that the result can be compared with what the service had on offer.  *)
(* The service lists its samples in time order.                            *)
(***************************************************************************)
MaxSlots == 3

WindowRequests ==
    [location : {"Atlantis"}, maxDistanceKm : {1000}, daysAhead : {1, 2, 3},
     maxResults : {2}, specificDate : {<<>>}]

\* the lists of at most MaxSlots samples in increasing time
FeedsInOrder ==
    { f \in SeqsUpTo(SamplePool, MaxSlots) :
        \A i \in 1..Len(f), j \in 1..Len(f) : i < j => f[i].dt < f[j].dt }

InitWindow ==
    /\ pc = "geocode"
    /\ req \in WindowRequests
    /\ env \in Envs
    /\ issued = <<>>
    /\ locData = <<>>
    /\ dates = <<>>
    /\ weatherData = <<>>
    /\ launches = <<>>
    /\ nearby = <<>>
    /\ result = <<>>
    /\ settled = "pending"
    /\ upstream \in [kind : {"list"}, list : FeedsInOrder]
    /\ FetchIdle
    /\ ServerIdle

\* await getWeatherData(...) answered with the list the service holds
ForecastFeedStep == ForecastStepOn(upstream)

NextWindow == GeocodeStep \/ ForecastFeedStep \/ LaunchStep

SpecWindow == InitWindow /\ [][NextWindow]_vars

\* the forecast service holds a sample on the UTC day of launch l
FeedHasDayOf(l) ==
    \E k \in 1..Len(upstream.list) :
        DayKey(upstream.list[k].dt) = DayKey(l.net_raw[1])

\* C24: without a date filter, every returned launch whose UTC day has a
\* sample in the list of the forecast service is matched with a forecast and
\* gets a status other than "Unknown": the cut-off at daysAhead day buckets
\* never drops the day of a launch inside [now, now + daysAhead days].
C24_WindowDaysAreForecast ==
    (Completed /\ Len(issued) = 3) =>
        \A i \in 1..Len(result[1].launches) :
            LET l == result[1].launches[i]
            IN FeedHasDayOf(l) =>
                  /\ l.visibility.status # "Unknown"
                  /\ l.weather_forecast # <<>>

====
